---- MODULE Spec2Model ----
(***************************************************************************)
(* Velocity-Dex matching engine: the order book of                         *)
(* crates/engine-core/src/lib.rs (OrderBook::place_limit_order and         *)
(* OrderBook::cancel_order) as a state machine.  Each call of the book is  *)
(* one action; the matching loops are recursive operators that follow the  *)
(* code statement by statement.                                            *)
(***************************************************************************)
EXTENDS Integers, Sequences, FiniteSets, TLC

(* ---- bounds of the model ---- *)
MaxOrders == 3      \* number of place_limit_order calls (order ids 1..MaxOrders)

(* The value domains of the arguments.  The book compares user ids for      *)
(* equality only, prices by order and quantities by min and subtraction:    *)
(* two users, two price levels and the quantities 1 and 2 produce own and   *)
(* foreign makers, better and worse levels, partial, exact and multiple     *)
(* fills.                                                                   *)
OrderIds == 1..MaxOrders
Users == {1, 2}
Prices == {1, 2}
Quantities == {1, 2}
Sides == {"Bid", "Ask"}
DepthLimits == {0, 1, 2}

MaxCmds == 2        \* number of commands the adapters enqueue
MaxAppends == 3     \* number of records the WAL is asked to append on its own
MaxProduced == 3    \* number of commands the producers send to a channel that fills
QueueCap == 2       \* capacity of the command channel when it is made to fill
WalBufCap == 12     \* words the BufWriter of the WAL holds before it flushes
WordBase == 256     \* values of a word of the WAL file

(* What a client can put on the wire: a side that is missing or out of     *)
(* range, and zero prices and quantities.                                  *)
WireSides == {"Unspecified", "Bid", "Ask", "Invalid"}
WirePrices == {0, 1}
WireQuantities == {0, 1, 2}

MaxEvents == 4      \* number of events published while subscribers are watched
BroadcastCap == 2   \* values the broadcast channel retains
Subs == {1, 2}

VARIABLES
    order_store,    \* Slab<Order>: live slots, free list, number of entries
    bids,           \* BTreeMap<Price, VecDeque<usize>>
    asks,           \* BTreeMap<Price, VecDeque<usize>>
    order_index,    \* HashMap<OrderId, usize>
    next_id,        \* the next order id a caller supplies (ids are unique)
    panicked,       \* the expect("Stale index in queue") of the matcher fired
    cmd,            \* the last call made on the book, with its arguments
    events,         \* the Vec<EngineEvent> the last call returned
    steps,          \* the iterations of the matching loop of the last call
    depth,          \* the (asks, bids) the last get_depth call returned
    pc,             \* where the processor is: "down", "recv", "log", "apply", "bcast", "reply",
                    \* "done"
    cur,            \* the command the processor took from the queue
    receiver,       \* the mpsc channel of commands
    wal_file,       \* velocity.wal: what has been written to the file
    wal_buf,        \* the BufWriter of the WalHandler: what has not been written yet
    pending,        \* the events of the current command still to broadcast
    replies,        \* what the responders have been sent, in order
    trace,          \* the side effects of the processor, in order
    sent,           \* the number of commands enqueued so far
    rpc,            \* the outcome of the last request at the gRPC adapter
    hist,           \* the book at the last stop, and whether the WAL is whole
    handles,        \* the oneshot::Receiver of each command: who still waits for the reply
    closed,         \* every mpsc::Sender of the command channel has been dropped
    published,      \* what the broadcast::Sender has been given, in order
    subs,           \* the WebSocket handlers: each with its broadcast::Receiver
    appended,       \* the entries the WAL was asked to append on its own, in order
    replayed        \* what read_all returned the last time the WAL was opened on its own

bookVars == <<order_store, bids, asks, order_index, next_id, panicked, cmd, events, steps, depth>>

procVars == <<pc, cur, receiver, wal_file, wal_buf, pending, replies, trace, sent, rpc, hist,
              handles, closed>>

fanVars == <<published, subs>>

walVars == <<appended, replayed>>

(* ---- helpers on maps and sequences ---- *)
SetMin(S) == CHOOSE x \in S : \A y \in S : x <= y
SetMax(S) == CHOOSE x \in S : \A y \in S : x >= y

MapPut(m, k, v) == [x \in (DOMAIN m) \cup {k} |-> IF x = k THEN v ELSE m[x]]
MapRemove(m, k) == [x \in (DOMAIN m) \ {k} |-> m[x]]
EmptyMap == [x \in {} |-> 0]

(* ---- domain types ---- *)
Order(id, user_id, price, quantity, side) ==
    [id |-> id, user_id |-> user_id, price |-> price, quantity |-> quantity,
     side |-> side, timestamp |-> 0]

NoOrder == Order(0, 0, 0, 0, "None")

OrderPlaced(id, user_id, price, quantity, side) ==
    [type |-> "OrderPlaced", id |-> id, user_id |-> user_id, price |-> price,
     quantity |-> quantity, side |-> side]

OrderCancelled(id) == [type |-> "OrderCancelled", id |-> id]

TradeExecuted(maker_id, taker_id, price, quantity) ==
    [type |-> "TradeExecuted", maker_id |-> maker_id, taker_id |-> taker_id,
     price |-> price, quantity |-> quantity]

(* ---- the slab: freed keys are reused, the last freed first ---- *)
slab_new == [live |-> EmptyMap, free |-> <<>>, len |-> 0]

slab_next_key(s) == IF s.free = <<>> THEN s.len ELSE Head(s.free)

slab_insert(s, val) ==
    IF s.free = <<>>
    THEN [live |-> MapPut(s.live, s.len, val), free |-> <<>>, len |-> s.len + 1]
    ELSE [live |-> MapPut(s.live, Head(s.free), val), free |-> Tail(s.free), len |-> s.len]

(* variant: the slot stays in use *)
slab_remove_keep(s, key) == s

slab_remove(s, key) ==
    [live |-> MapRemove(s.live, key), free |-> <<key>> \o s.free, len |-> s.len]

slab_contains(s, key) == key \in DOMAIN s.live

(* ---- the pieces of place_limit_order ---- *)
(* variant: the walk starts at the wrong end of the opposite side *)
best_match_option_worst(side, opp) ==
    IF side = "Bid" THEN SetMax(DOMAIN opp) ELSE SetMin(DOMAIN opp)

best_match_option(side, opp) ==
    IF side = "Bid" THEN SetMin(DOMAIN opp) ELSE SetMax(DOMAIN opp)

(* variant: a level at exactly the limit price is not matched *)
is_matchable_strict(side, best_price, price) ==
    IF side = "Bid" THEN best_price < price ELSE best_price > price

is_matchable(side, best_price, price) ==
    IF side = "Bid" THEN best_price <= price ELSE best_price >= price

(* variant: no self-trade prevention *)
is_self_trade_never(maker_order, user_id) == FALSE

is_self_trade(maker_order, user_id) == maker_order.user_id = user_id

(* variant: the whole maker is traded whatever the incoming quantity *)
trade_qty_maker(quantity, maker_quantity) == maker_quantity

trade_qty_of(quantity, maker_quantity) ==
    IF quantity <= maker_quantity THEN quantity ELSE maker_quantity

(* variant: the trade is priced at the taker's limit *)
trade_price_taker(best_price, price) == price

trade_price_of(best_price, price) == best_price

(* variant: the new order jumps the queue *)
queue_push_front(queue, idx) == <<idx>> \o queue

(* variant: the place in the level depends on whether commands are waiting *)
(* in the channel at the moment of the call                                *)
queue_push_by_load(queue, idx) ==
    IF receiver # <<>> THEN <<idx>> \o queue ELSE Append(queue, idx)

queue_push(queue, idx) == Append(queue, idx)

(* The local state of one call: the book fields the matcher writes, the     *)
(* remaining quantity, the events so far and the log of loop iterations.    *)
OppOf(st, side) == IF side = "Bid" THEN st.asks ELSE st.bids

SetOpp(st, side, m) ==
    IF side = "Bid" THEN [st EXCEPT !.asks = m] ELSE [st EXCEPT !.bids = m]

(* One iteration of the inner loop: the maker at the front, the incoming    *)
(* quantity before and after, and what the store holds at that moment.     *)
LiveOrders(store) == {store.live[k] : k \in DOMAIN store.live}

StepRecord(kind, st, side, best_price, maker_idx, maker_order, out_qty) ==
    [kind |-> kind,
     out_qty |-> out_qty,
     maker_idx |-> maker_idx,
     maker |-> maker_order,
     best_price |-> best_price,
     in_qty |-> st.quantity,
     opp_prices |-> {o.price : o \in {x \in LiveOrders(st.order_store) :
                                        x.side = (IF side = "Bid" THEN "Ask" ELSE "Bid")}},
     level_ids |-> {o.id : o \in {x \in LiveOrders(st.order_store) :
                                        x.side = maker_order.side /\ x.price = maker_order.price}}]

(* taker is the loop state on entry to an iteration, bound once as st *)
RECURSIVE QueueLoop(_, _, _, _, _, _)
QueueLoop(taker, order_id, user_id, side, price, best_price) ==
    CHOOSE res \in {
      LET order_queue == OppOf(st, side)[best_price] IN
      IF order_queue = <<>> THEN st
      ELSE
        LET maker_idx == Head(order_queue) IN
        IF ~slab_contains(st.order_store, maker_idx)
        THEN [st EXCEPT !.panicked = TRUE]
        ELSE
          LET maker_order == st.order_store.live[maker_idx] IN
          IF is_self_trade(maker_order, user_id)
          THEN
            LET popped == SetOpp(st, side, MapPut(OppOf(st, side), best_price, Tail(order_queue)))
                st1 == [popped EXCEPT
                          !.events = Append(@, OrderCancelled(maker_order.id)),
                          !.order_store = slab_remove(@, maker_idx),
                          !.steps = Append(@, StepRecord("stp", st, side, best_price,
                                              maker_idx, maker_order, popped.quantity))]
            IN QueueLoop(st1, order_id, user_id, side, price, best_price)
          ELSE
            LET trade_qty == trade_qty_of(st.quantity, maker_order.quantity)
                maker_left == maker_order.quantity - trade_qty
                traded == [st EXCEPT
                          !.events = Append(@, TradeExecuted(maker_order.id, order_id,
                                                trade_price_of(best_price, price), trade_qty)),
                          !.quantity = @ - trade_qty,
                          !.order_store.live[maker_idx].quantity = maker_left,
                          !.steps = Append(@, StepRecord("trade", st, side, best_price,
                                              maker_idx, maker_order, st.quantity - trade_qty))]
                st1 == IF maker_left = 0
                       THEN [SetOpp(traded, side,
                                    MapPut(OppOf(traded, side), best_price, Tail(order_queue)))
                               EXCEPT !.order_store = slab_remove(@, maker_idx)]
                       ELSE traded
            IN IF st1.quantity = 0 THEN st1
               ELSE QueueLoop(st1, order_id, user_id, side, price, best_price)
      : st \in {taker}} : TRUE

(* after the inner loop: a level whose queue ran empty is removed *)
drop_empty_level(st1, side, best_price) ==
    IF ~st1.panicked /\ OppOf(st1, side)[best_price] = <<>>
    THEN SetOpp(st1, side, MapRemove(OppOf(st1, side), best_price))
    ELSE st1

RECURSIVE MatchLoop(_, _, _, _, _)
MatchLoop(taker, order_id, user_id, side, price) ==
    CHOOSE res \in {
      IF st.quantity = 0 \/ st.panicked THEN st
      ELSE IF DOMAIN OppOf(st, side) = {} THEN st
      ELSE
        LET best_price == best_match_option(side, OppOf(st, side)) IN
        IF ~is_matchable(side, best_price, price) THEN st
        ELSE
          MatchLoop(drop_empty_level(QueueLoop(st, order_id, user_id, side, price, best_price),
                                     side, best_price),
                    order_id, user_id, side, price)
      : st \in {taker}} : TRUE

(* the maker phase: what is left of the incoming order after the matching   *)
(* loop st rests at the back of its level                                   *)
maker_phase(book, st, order_id, user_id, side, price) ==
    IF st.panicked \/ ~(st.quantity > 0)
    THEN [order_store |-> st.order_store, bids |-> st.bids, asks |-> st.asks,
          order_index |-> book.order_index, events |-> st.events, steps |-> st.steps,
          panicked |-> st.panicked]
    ELSE
      LET new_order == Order(order_id, user_id, price, st.quantity, side)
          idx == slab_next_key(st.order_store)
          own == IF side = "Bid" THEN st.bids ELSE st.asks
          queue == IF price \in DOMAIN own THEN own[price] ELSE <<>>
          own1 == MapPut(own, price, queue_push(queue, idx))
      IN [order_store |-> slab_insert(st.order_store, new_order),
          bids |-> IF side = "Bid" THEN own1 ELSE st.bids,
          asks |-> IF side = "Ask" THEN own1 ELSE st.asks,
          order_index |-> MapPut(book.order_index, order_id, idx),
          events |-> Append(st.events, OrderPlaced(order_id, user_id, price, st.quantity, side)),
          steps |-> st.steps,
          panicked |-> FALSE]

(* OrderBook::place_limit_order: the book after the call and what it returns *)
place_limit_order(book, order_id, user_id, side, price, quantity) ==
    maker_phase(book,
                MatchLoop([order_store |-> book.order_store, bids |-> book.bids,
                           asks |-> book.asks, quantity |-> quantity, events |-> <<>>,
                           steps |-> <<>>, panicked |-> FALSE],
                          order_id, user_id, side, price),
                order_id, user_id, side, price)

(* ---- the pieces of cancel_order ---- *)
(* variant: no ownership check *)
is_unauthorized_never(order, user_id) == FALSE

is_unauthorized(order, user_id) == order.user_id # user_id

(* variant: the front of the level is dropped instead of the order's slot *)
queue_retain_pop_front(q, internal_idx) == Tail(q)

queue_retain(q, internal_idx) == SelectSeq(q, LAMBDA idx : idx # internal_idx)

(* OrderBook::cancel_order *)
cancel_order(book, order_id, user_id) ==
    LET unchanged == [order_store |-> book.order_store, bids |-> book.bids,
                      asks |-> book.asks, order_index |-> book.order_index,
                      events |-> <<>>, steps |-> <<>>, panicked |-> FALSE]
    IN
    IF order_id \notin DOMAIN book.order_index THEN unchanged
    ELSE
      LET internal_idx == book.order_index[order_id] IN
      IF ~slab_contains(book.order_store, internal_idx) THEN unchanged
      ELSE
        LET order == book.order_store.live[internal_idx] IN
        IF is_unauthorized(order, user_id) THEN unchanged
        ELSE
          LET own == IF order.side = "Bid" THEN book.bids ELSE book.asks
              own1 == IF order.price \in DOMAIN own
                      THEN LET q == queue_retain(own[order.price], internal_idx)
                           IN IF q = <<>> THEN MapRemove(own, order.price)
                              ELSE MapPut(own, order.price, q)
                      ELSE own
          IN [order_store |-> slab_remove(book.order_store, internal_idx),
              bids |-> IF order.side = "Bid" THEN own1 ELSE book.bids,
              asks |-> IF order.side = "Ask" THEN own1 ELSE book.asks,
              order_index |-> MapRemove(book.order_index, order_id),
              events |-> <<OrderCancelled(order_id)>>,
              steps |-> <<>>,
              panicked |-> FALSE]

(* ---- get_depth ---- *)
OrderLevel(price, quantity) == [price |-> price, quantity |-> quantity]

RECURSIVE SortedAsc(_)
SortedAsc(S) == IF S = {} THEN <<>> ELSE <<SetMin(S)>> \o SortedAsc(S \ {SetMin(S)})

RECURSIVE SortedDesc(_)
SortedDesc(S) == IF S = {} THEN <<>> ELSE <<SetMax(S)>> \o SortedDesc(S \ {SetMax(S)})

Take(seq, limit) == SubSeq(seq, 1, IF limit <= Len(seq) THEN limit ELSE Len(seq))

(* the sum over one level queue; a slot that is not live counts 0 *)
RECURSIVE total_qty(_, _)
total_qty(store, queue) ==
    IF queue = <<>> THEN 0
    ELSE (IF slab_contains(store, Head(queue)) THEN store.live[Head(queue)].quantity ELSE 0)
         + total_qty(store, Tail(queue))

(* variant: the bids are listed from the lowest price *)
bid_prices_ascending(m) == SortedAsc(DOMAIN m)

ask_prices(m) == SortedAsc(DOMAIN m)

bid_prices(m) == SortedDesc(DOMAIN m)

depth_side(store, m, prices, limit) ==
    LET top == Take(prices, limit)
    IN [i \in 1..Len(top) |-> OrderLevel(top[i], total_qty(store, m[top[i]]))]

(* OrderBook::get_depth *)
get_depth(book, limit) ==
    [asks |-> depth_side(book.order_store, book.asks, ask_prices(book.asks), limit),
     bids |-> depth_side(book.order_store, book.bids, bid_prices(book.bids), limit)]

NoDepth == [asks |-> <<>>, bids |-> <<>>]

(* ---- the write-ahead log ---- *)
LogPlace(order_id, user_id, side, price, quantity) ==
    [type |-> "Place", order_id |-> order_id, user_id |-> user_id, side |-> side,
     price |-> price, quantity |-> quantity]

LogCancel(order_id, user_id) ==
    [type |-> "Cancel", order_id |-> order_id, user_id |-> user_id]

(* bincode writes an enum tag and a Side as a u32 and every id, price and    *)
(* quantity as a u64, little endian, with a fixed width.  The model counts   *)
(* the file in words of four bytes: a u32 is one word and a u64 two, the low *)
(* word first; a word holds the values below WordBase.                       *)
u32(v) == <<v>>

u64(v) == <<v % WordBase, v \div WordBase>>

u64_of(lo, hi) == lo + hi * WordBase

entry_tag(entry) == IF entry.type = "Place" THEN 0 ELSE 1

side_tag(side) == IF side = "Bid" THEN 0 ELSE 1

side_of(tag) == IF tag = 0 THEN "Bid" ELSE "Ask"

(* the fields of a record in the order of the enum declaration *)
fields(entry) ==
    IF entry.type = "Place"
    THEN <<u32(entry_tag(entry)), u64(entry.order_id), u64(entry.user_id),
           u32(side_tag(entry.side)), u64(entry.price), u64(entry.quantity)>>
    ELSE <<u32(entry_tag(entry)), u64(entry.order_id), u64(entry.user_id)>>

(* bincode::serialize_into hands a record to the writer field by field: one  *)
(* write per field.  n is the number of the command the record was written   *)
(* for, part the number of the field and of the number of fields.            *)
encode(entry, n) ==
    [i \in 1..Len(fields(entry)) |->
        [entry |-> entry, part |-> i, of |-> Len(fields(entry)), n |-> n,
         words |-> fields(entry)[i]]]

(* the words of a sequence of writes *)
RECURSIVE words_of(_)
words_of(pieces) ==
    CHOOSE ws \in {IF ps = <<>> THEN <<>> ELSE Head(ps).words \o words_of(Tail(ps)) :
                     ps \in {pieces}} : TRUE

(* variant: the writer puts new bytes in front of the buffered ones *)
buf_push_front(buf, piece) == <<piece>> \o buf

buf_push(buf, piece) == Append(buf, piece)

(* WalHandler::write_entry on w = [file, buf].  A write that does not fit    *)
(* the buffer first writes the buffer to the file; only that can fail, and   *)
(* then the rest of the record is not written.  There is no flush at the end.*)
RECURSIVE write_entry(_, _, _)
write_entry(w, pieces, io_fails) ==
    CHOOSE r \in
      {IF ps = <<>> THEN [file |-> wr.file, buf |-> wr.buf, ok |-> TRUE]
       ELSE IF Len(words_of(wr.buf)) + Len(Head(ps).words) > WalBufCap
            THEN IF io_fails
                 THEN [file |-> wr.file, buf |-> wr.buf, ok |-> FALSE]
                 ELSE write_entry([file |-> wr.file \o wr.buf,
                                   buf |-> buf_push(<<>>, Head(ps))],
                                  Tail(ps), io_fails)
            ELSE write_entry([file |-> wr.file, buf |-> buf_push(wr.buf, Head(ps))],
                             Tail(ps), io_fails) :
       wr \in {w}, ps \in {pieces}} : TRUE

(* variant: the file is truncated when it is opened *)
wal_open_truncate(file) == <<>>

(* WalHandler::new: create, write, append *)
wal_open(file) == file

(* bincode::deserialize_from on the words ws: the record and the number of   *)
(* words it took, or an error: the end of the file inside the record, a tag  *)
(* that is no variant of LogEntry, a side that is no variant of Side         *)
deserialize_from(ws) ==
    IF Len(ws) >= 10 /\ ws[1] = 0 /\ ws[6] \in {0, 1}
    THEN [ok |-> TRUE, len |-> 10,
          entry |-> LogPlace(u64_of(ws[2], ws[3]), u64_of(ws[4], ws[5]), side_of(ws[6]),
                             u64_of(ws[7], ws[8]), u64_of(ws[9], ws[10]))]
    ELSE IF Len(ws) >= 5 /\ ws[1] = 1
    THEN [ok |-> TRUE, len |-> 5,
          entry |-> LogCancel(u64_of(ws[2], ws[3]), u64_of(ws[4], ws[5]))]
    ELSE [ok |-> FALSE, len |-> 0, entry |-> LogCancel(0, 0)]

(* variant: only the first record is read *)
read_words_first(ws) ==
    IF deserialize_from(ws).ok THEN <<deserialize_from(ws).entry>> ELSE <<>>

(* the loop of WalHandler::read_all: records are read until the first error *)
RECURSIVE read_words(_)
read_words(ws) ==
    IF deserialize_from(ws).ok
    THEN <<deserialize_from(ws).entry>>
           \o read_words(SubSeq(ws, deserialize_from(ws).len + 1, Len(ws)))
    ELSE <<>>

(* WalHandler::read_all: what the file holds is read as one stream of bytes  *)
(* (a missing file has none)                                                 *)
read_all(file) == read_words(words_of(file))

(* ---- the processor ---- *)
NoCmd ==
    [op |-> "none", n |-> 0, order_id |-> 0, user_id |-> 0, side |-> "None",
     price |-> 0, quantity |-> 0]

CmdPlaceOrder(n, user_id, order_id, side, price, quantity) ==
    [op |-> "place", n |-> n, order_id |-> order_id, user_id |-> user_id, side |-> side,
     price |-> price, quantity |-> quantity]

CmdCancelOrder(n, user_id, order_id) ==
    [op |-> "cancel", n |-> n, order_id |-> order_id, user_id |-> user_id, side |-> "None",
     price |-> 0, quantity |-> 0]

(* the limit of a GetDepth travels in the quantity field *)
CmdGetDepth(n, limit) ==
    [op |-> "depth", n |-> n, order_id |-> 0, user_id |-> 0, side |-> "None",
     price |-> 0, quantity |-> limit]

(* variant: every command is written to the log *)
is_logged_always(c) == TRUE

is_logged(c) == c.op \in {"place", "cancel"}

log_entry(c) ==
    IF c.op = "place"
    THEN LogPlace(c.order_id, c.user_id, c.side, c.price, c.quantity)
    ELSE LogCancel(c.order_id, c.user_id)

(* variant: the book is called without writing the log *)
after_recv_skip_log(c) == "apply"

(* the match arm of a command: Place and Cancel start with the log *)
after_recv(c) == IF is_logged(c) THEN "log" ELSE "apply"

(* variant: a failed append stops the run *)
after_log_fatal(ok) == IF ok THEN "apply" ELSE "down"

(* if let Err(e) = self.wal.write_entry(..) { eprintln!(..) }: the book call *)
(* follows whatever the append returned                                      *)
after_log(ok) == "apply"

(* the for loop over the events, then the responder *)
after_apply(evs) == IF evs = <<>> THEN "reply" ELSE "bcast"

(* one side effect of the processor: what it did, for which command *)
Effect(kind, c) == [kind |-> kind, n |-> c.n, op |-> c.op]

(* oneshot::Sender::send: Ok when the receiver is still there *)
responder_send(handle) == handle = "waiting"

(* variant: the run stops on a reply that nobody takes *)
after_reply_checked(ok) == IF ok THEN "recv" ELSE "down"

(* let _ = responder.send(..): the result is dropped, the loop goes on *)
after_reply(ok) == "recv"

(* broadcast::Sender::send: the value is stored for the receivers; the call *)
(* does not wait and its result is dropped                                  *)
broadcast_send(log, item) == Append(log, item)

(* ---- the WebSocket fan-out ---- *)
(* a handler: not connected, in its receive loop, or returned *)
NoSub == [state |-> "none", next |-> 0, seen |-> <<>>, lagged |-> 0]

(* variant: the channel never drops a value *)
oldest_retained_all(len) == 1

(* the position of the oldest value the channel still holds *)
oldest_retained(len) == IF len > BroadcastCap THEN len - BroadcastCap + 1 ELSE 1

(* OrderBook::new with nothing returned yet *)
book_new ==
    [order_store |-> slab_new, bids |-> EmptyMap, asks |-> EmptyMap,
     order_index |-> EmptyMap, events |-> <<>>, steps |-> <<>>, panicked |-> FALSE]

BookOf(r) ==
    [order_store |-> r.order_store, bids |-> r.bids, asks |-> r.asks,
     order_index |-> r.order_index]

(* variant: the replay applies the Place records only *)
replay_entry_place_only(r, entry) ==
    IF entry.type = "Place"
    THEN place_limit_order(BookOf(r), entry.order_id, entry.user_id, entry.side,
                           entry.price, entry.quantity)
    ELSE r

(* one arm of the recovery loop of MarketProcessor::new *)
replay_entry(r, entry) ==
    IF entry.type = "Place"
    THEN place_limit_order(BookOf(r), entry.order_id, entry.user_id, entry.side,
                           entry.price, entry.quantity)
    ELSE cancel_order(BookOf(r), entry.order_id, entry.user_id)

RECURSIVE replay(_, _)
replay(r, entries) ==
    IF entries = <<>> \/ r.panicked THEN r
    ELSE replay(replay_entry(r, Head(entries)), Tail(entries))

(* every level of both sides *)
Snapshot(book) ==
    get_depth(book, Cardinality(DOMAIN book.asks) + Cardinality(DOMAIN book.bids))

(* ---- the gRPC adapter ---- *)
(* ProtoSide::try_from(req.side).unwrap_or(ProtoSide::Unspecified) *)
proto_side(side) == IF side \in {"Unspecified", "Bid", "Ask"} THEN side ELSE "Unspecified"

(* what place_limit_order of the service checks before it builds the command *)
place_status(side, price, quantity) ==
    IF proto_side(side) = "Unspecified" THEN "invalid_argument" ELSE "ok"

default_depth_limit == 10

depth_limit(limit) == IF limit = 0 THEN default_depth_limit ELSE limit

channel_capacity == 1024

(* ---- the state machine ---- *)
Book == [order_store |-> order_store, bids |-> bids, asks |-> asks,
         order_index |-> order_index]

(* The order resting under an id (NoOrder when none does). *)
RestingIn(store, id) ==
    IF \E o \in LiveOrders(store) : o.id = id
    THEN CHOOSE o \in LiveOrders(store) : o.id = id
    ELSE NoOrder

Command(op, order_id, user_id, side, price, quantity, target) ==
    [op |-> op, order_id |-> order_id, user_id |-> user_id, side |-> side,
     price |-> price, quantity |-> quantity, target |-> target]

Init ==
    /\ order_store = slab_new
    /\ bids = EmptyMap
    /\ asks = EmptyMap
    /\ order_index = EmptyMap
    /\ next_id = 1
    /\ panicked = FALSE
    /\ cmd = Command("none", 0, 0, "None", 0, 0, NoOrder)
    /\ events = <<>>
    /\ steps = <<>>
    /\ depth = NoDepth
    /\ pc = "down"
    /\ cur = NoCmd
    /\ receiver = <<>>
    /\ wal_file = <<>>
    /\ wal_buf = <<>>
    /\ pending = <<>>
    /\ replies = <<>>
    /\ trace = <<>>
    /\ sent = 0
    /\ rpc = "none"
    /\ hist = [depth |-> NoDepth, clean |-> TRUE, boot |-> 0]
    /\ handles = EmptyMap
    /\ closed = FALSE
    /\ published = <<>>
    /\ subs = [s \in Subs |-> NoSub]
    /\ appended = <<>>
    /\ replayed = <<>>

Apply(r) ==
    /\ order_store' = r.order_store
    /\ bids' = r.bids
    /\ asks' = r.asks
    /\ order_index' = r.order_index
    /\ events' = r.events
    /\ steps' = r.steps
    /\ panicked' = r.panicked

PlaceOrder(user_id, side, price, quantity) ==
    /\ ~panicked
    /\ next_id <= MaxOrders
    /\ \E r \in {place_limit_order(Book, next_id, user_id, side, price, quantity)} : Apply(r)
    /\ cmd' = Command("place", next_id, user_id, side, price, quantity,
                      RestingIn(order_store, next_id))
    /\ next_id' = next_id + 1
    /\ depth' = NoDepth
    /\ UNCHANGED <<procVars, fanVars>>
    /\ UNCHANGED walVars

CancelOrder(order_id, user_id) ==
    /\ ~panicked
    /\ \E r \in {cancel_order(Book, order_id, user_id)} : Apply(r)
    /\ cmd' = Command("cancel", order_id, user_id, "None", 0, 0,
                      RestingIn(order_store, order_id))
    /\ depth' = NoDepth
    /\ UNCHANGED next_id
    /\ UNCHANGED <<procVars, fanVars>>
    /\ UNCHANGED walVars

GetDepth(limit) ==
    /\ ~panicked
    /\ depth' = get_depth(Book, limit)
    /\ cmd' = Command("depth", 0, 0, "None", 0, limit, NoOrder)
    /\ events' = <<>>
    /\ steps' = <<>>
    /\ UNCHANGED <<order_store, bids, asks, order_index, next_id, panicked>>
    /\ UNCHANGED <<procVars, fanVars>>
    /\ UNCHANGED walVars

Next ==
    \/ \E u \in Users, s \in Sides, p \in Prices, q \in Quantities : PlaceOrder(u, s, p, q)
    \/ \E id \in OrderIds, u \in Users : CancelOrder(id, u)

vars == <<bookVars, procVars, fanVars, walVars>>

Spec == Init /\ [][Next]_vars

(* the book with its read-only query *)
NextDepth ==
    \/ Next
    \/ \E limit \in DepthLimits : GetDepth(limit)

SpecDepth == Init /\ [][NextDepth]_vars

(* ---- the processor behind its adapters ---- *)
(* MarketProcessor::new, then run is spawned *)
Startup ==
    /\ pc = "down"
    /\ \E r \in {replay(book_new, read_all(wal_file))} :
         /\ order_store' = r.order_store
         /\ bids' = r.bids
         /\ asks' = r.asks
         /\ order_index' = r.order_index
         /\ panicked' = r.panicked
         /\ pc' = IF r.panicked THEN "down" ELSE "recv"
    /\ wal_file' = wal_open(wal_file)
    /\ wal_buf' = <<>>
    /\ hist' = [hist EXCEPT !.boot = sent]
    /\ UNCHANGED <<next_id, cmd, events, steps, depth>>
    /\ UNCHANGED <<cur, receiver, pending, replies, trace, sent, rpc, handles>>
    /\ UNCHANGED fanVars
    /\ UNCHANGED walVars
    /\ UNCHANGED closed

Enqueue(c) ==
    /\ sent < MaxCmds
    /\ Len(receiver) < channel_capacity
    /\ receiver' = Append(receiver, c)
    /\ sent' = sent + 1
    /\ rpc' = "enqueued"
    /\ handles' = MapPut(handles, c.n, "waiting")

(* TradingService::place_limit_order up to the send *)
PlaceRequest(order_id, user_id, side, price, quantity) ==
    /\ pc # "down"
    /\ IF place_status(side, price, quantity) = "ok"
       THEN Enqueue(CmdPlaceOrder(sent + 1, user_id, order_id, proto_side(side), price, quantity))
       ELSE /\ rpc' = place_status(side, price, quantity)
            /\ UNCHANGED <<receiver, sent, handles>>
    /\ UNCHANGED bookVars
    /\ UNCHANGED <<pc, cur, wal_file, wal_buf, pending, replies, trace, hist>>
    /\ UNCHANGED fanVars
    /\ UNCHANGED walVars
    /\ UNCHANGED closed

(* TradingService::cancel_order up to the send *)
CancelRequest(order_id, user_id) ==
    /\ pc # "down"
    /\ Enqueue(CmdCancelOrder(sent + 1, user_id, order_id))
    /\ UNCHANGED bookVars
    /\ UNCHANGED <<pc, cur, wal_file, wal_buf, pending, replies, trace, hist>>
    /\ UNCHANGED fanVars
    /\ UNCHANGED walVars
    /\ UNCHANGED closed

(* TradingService::get_order_book_depth up to the send *)
DepthRequest(limit) ==
    /\ pc # "down"
    /\ Enqueue(CmdGetDepth(sent + 1, depth_limit(limit)))
    /\ UNCHANGED bookVars
    /\ UNCHANGED <<pc, cur, wal_file, wal_buf, pending, replies, trace, hist>>
    /\ UNCHANGED fanVars
    /\ UNCHANGED walVars
    /\ UNCHANGED closed

(* the caller of command n goes away before its reply: the future of the    *)
(* request is dropped and resp_rx with it                                   *)
DropHandle(n) ==
    /\ n \in DOMAIN handles
    /\ handles[n] = "waiting"
    /\ handles' = [handles EXCEPT ![n] = "dropped"]
    /\ UNCHANGED bookVars
    /\ UNCHANGED <<pc, cur, receiver, wal_file, wal_buf, pending, replies, trace, sent, rpc,
                   hist>>
    /\ UNCHANGED fanVars
    /\ UNCHANGED walVars
    /\ UNCHANGED closed

(* self.receiver.recv() returns Some(cmd) *)
Recv ==
    /\ pc = "recv"
    /\ receiver # <<>>
    /\ cur' = Head(receiver)
    /\ receiver' = Tail(receiver)
    /\ pc' = after_recv(Head(receiver))
    /\ trace' = Append(trace, Effect("recv", Head(receiver)))
    /\ UNCHANGED bookVars
    /\ UNCHANGED <<wal_file, wal_buf, pending, replies, sent, rpc, hist, handles>>
    /\ UNCHANGED fanVars
    /\ UNCHANGED walVars
    /\ UNCHANGED closed

WalWrite(io_fails) ==
    /\ pc = "log"
    /\ \E r \in {write_entry([file |-> wal_file, buf |-> wal_buf],
                            encode(log_entry(cur), cur.n), io_fails)} :
         /\ r.ok = ~io_fails
         /\ wal_file' = r.file
         /\ wal_buf' = r.buf
         /\ hist' = [hist EXCEPT !.clean = hist.clean /\ r.ok]
         /\ pc' = after_log(r.ok)
    /\ trace' = Append(trace, Effect("log", cur))
    /\ UNCHANGED bookVars
    /\ UNCHANGED <<cur, receiver, pending, replies, sent, rpc, handles>>
    /\ UNCHANGED fanVars
    /\ UNCHANGED walVars
    /\ UNCHANGED closed

(* self.wal.write_entry(&log_entry) returns Ok *)
WalWriteOk == WalWrite(FALSE)

(* self.wal.write_entry(&log_entry) returns Err: it is printed, no more *)
WalWriteErr == WalWrite(TRUE)

(* the call of the book for the current command *)
Execute ==
    /\ pc = "apply"
    /\ \/ /\ cur.op = "place"
          /\ \E r \in {place_limit_order(Book, cur.order_id, cur.user_id, cur.side,
                                         cur.price, cur.quantity)} : Apply(r)
          /\ cmd' = Command("place", cur.order_id, cur.user_id, cur.side, cur.price,
                            cur.quantity, RestingIn(order_store, cur.order_id))
          /\ depth' = NoDepth
       \/ /\ cur.op = "cancel"
          /\ \E r \in {cancel_order(Book, cur.order_id, cur.user_id)} : Apply(r)
          /\ cmd' = Command("cancel", cur.order_id, cur.user_id, "None", 0, 0,
                            RestingIn(order_store, cur.order_id))
          /\ depth' = NoDepth
       \/ /\ cur.op = "depth"
          /\ depth' = get_depth(Book, cur.quantity)
          /\ cmd' = Command("depth", 0, 0, "None", 0, cur.quantity, NoOrder)
          /\ events' = <<>>
          /\ steps' = <<>>
          /\ UNCHANGED <<order_store, bids, asks, order_index, panicked>>
    /\ pending' = events'
    /\ pc' = IF panicked' THEN "down" ELSE after_apply(events')
    /\ trace' = Append(trace, Effect("apply", cur))
    /\ UNCHANGED next_id
    /\ UNCHANGED <<cur, receiver, wal_file, wal_buf, replies, sent, rpc, hist, handles>>
    /\ UNCHANGED fanVars
    /\ UNCHANGED walVars
    /\ UNCHANGED closed

(* one turn of the loop over the events: self.event_broadcaster.send *)
Broadcast ==
    /\ pc = "bcast"
    /\ published' = broadcast_send(published, [n |-> cur.n, event |-> Head(pending)])
    /\ pending' = Tail(pending)
    /\ pc' = IF Tail(pending) = <<>> THEN "reply" ELSE "bcast"
    /\ trace' = Append(trace, Effect("bcast", cur))
    /\ UNCHANGED bookVars
    /\ UNCHANGED <<cur, receiver, wal_file, wal_buf, replies, sent, rpc, hist, handles>>
    /\ UNCHANGED subs
    /\ UNCHANGED walVars
    /\ UNCHANGED closed

(* responder.send(events) or responder.send(depth) *)
Respond ==
    /\ pc = "reply"
    /\ replies' = Append(replies, [n |-> cur.n, op |-> cur.op,
                                   value |-> IF cur.op = "depth" THEN depth ELSE events])
    /\ \E ok \in {responder_send(handles[cur.n])} :
         /\ handles' = [handles EXCEPT ![cur.n] = IF ok THEN "received" ELSE "failed"]
         /\ pc' = after_reply(ok)
    /\ cur' = NoCmd
    /\ trace' = Append(trace, Effect("reply", cur))
    /\ UNCHANGED bookVars
    /\ UNCHANGED <<receiver, wal_file, wal_buf, pending, sent, rpc, hist>>
    /\ UNCHANGED fanVars
    /\ UNCHANGED walVars
    /\ UNCHANGED closed

(* the memory of the process is gone: the book, the queue and the channels *)
ProcessGone ==
    /\ order_store' = slab_new
    /\ bids' = EmptyMap
    /\ asks' = EmptyMap
    /\ order_index' = EmptyMap
    /\ panicked' = FALSE
    /\ cmd' = Command("none", 0, 0, "None", 0, 0, NoOrder)
    /\ events' = <<>>
    /\ steps' = <<>>
    /\ depth' = NoDepth
    /\ pc' = "down"
    /\ cur' = NoCmd
    /\ receiver' = <<>>
    /\ wal_buf' = <<>>
    /\ pending' = <<>>
    /\ rpc' = "none"
    /\ published' = <<>>
    /\ subs' = [s \in Subs |-> NoSub]
    /\ trace' = IF cur = NoCmd THEN trace ELSE Append(trace, Effect("lost", cur))
    /\ handles' = [n \in DOMAIN handles |->
                      IF handles[n] = "waiting" THEN "gone" ELSE handles[n]]
    /\ closed' = FALSE
    /\ UNCHANGED <<next_id, replies, sent>>
    /\ UNCHANGED walVars

(* Every sender is dropped while the processor waits: recv returns None,    *)
(* run returns and the drop of the BufWriter writes the buffer out (the     *)
(* write of the drop is taken to succeed).                                  *)
Shutdown ==
    /\ pc = "recv"
    /\ receiver = <<>>
    /\ wal_file' = wal_file \o wal_buf
    /\ hist' = [hist EXCEPT !.depth = Snapshot(Book)]
    /\ ProcessGone

(* the process is killed: nothing is dropped, the buffer is lost *)
Crash ==
    /\ pc # "down"
    /\ wal_file' = wal_file
    /\ hist' = [hist EXCEPT !.depth = Snapshot(Book),
                            !.clean = hist.clean /\ wal_buf = <<>>]
    /\ ProcessGone

ProcPrices == {1}
ProcLimits == {0, 1}

NextProc ==
    \/ Startup
    \/ \E u \in Users, s \in Sides, p \in ProcPrices, q \in Quantities :
          PlaceRequest(sent + 1, u, s, p, q)
    \/ \E id \in 1..(sent + 1), u \in Users : CancelRequest(id, u)
    \/ \E limit \in ProcLimits : DepthRequest(limit)
    \/ Recv
    \/ WalWriteOk
    \/ WalWriteErr
    \/ Execute
    \/ Broadcast
    \/ Respond
    \/ Shutdown
    \/ Crash

SpecProc == Init /\ [][NextProc]_vars

(* callers that may go away while their command waits or is processed *)
NextDrop ==
    \/ Startup
    \/ \E u \in Users, s \in Sides, p \in ProcPrices, q \in Quantities :
          PlaceRequest(sent + 1, u, s, p, q)
    \/ \E id \in 1..(sent + 1), u \in Users : CancelRequest(id, u)
    \/ \E n \in 1..MaxCmds : DropHandle(n)
    \/ Recv
    \/ WalWriteOk
    \/ Execute
    \/ Broadcast
    \/ Respond

SpecDrop == Init /\ [][NextDrop]_vars

(* ---- producers on a channel that fills, and the end of the run ---- *)
(* variant: recv gives up as soon as the senders are gone *)
recv_returns_none_early(queue, senders_gone) == senders_gone

(* mpsc::Receiver::recv returns None when every sender has been dropped and  *)
(* the channel holds no more values                                          *)
recv_returns_none(queue, senders_gone) == senders_gone /\ queue = <<>>

(* mpsc::Sender::send waits for capacity while the channel is full *)
send_waits(queue, capacity) == Len(queue) >= capacity

(* self.processor_sender.send(command).await returns Ok *)
Produce(c) ==
    /\ pc \notin {"down", "done"}
    /\ ~closed
    /\ sent < MaxProduced
    /\ ~send_waits(receiver, QueueCap)
    /\ receiver' = Append(receiver, c)
    /\ sent' = sent + 1
    /\ rpc' = "enqueued"
    /\ handles' = MapPut(handles, c.n, "waiting")
    /\ UNCHANGED bookVars
    /\ UNCHANGED <<pc, cur, wal_file, wal_buf, pending, replies, trace, hist, closed>>
    /\ UNCHANGED <<fanVars, walVars>>

(* the last mpsc::Sender is dropped *)
CloseSenders ==
    /\ pc \notin {"down", "done"}
    /\ ~closed
    /\ closed' = TRUE
    /\ UNCHANGED bookVars
    /\ UNCHANGED <<pc, cur, receiver, wal_file, wal_buf, pending, replies, trace, sent, rpc,
                   hist, handles>>
    /\ UNCHANGED <<fanVars, walVars>>

(* self.receiver.recv() returns None: the while let ends, run returns and    *)
(* the processor is dropped, the BufWriter of its WAL with it                *)
RunEnds ==
    /\ pc = "recv"
    /\ recv_returns_none(receiver, closed)
    /\ pc' = "done"
    /\ wal_file' = wal_file \o wal_buf
    /\ wal_buf' = <<>>
    /\ UNCHANGED bookVars
    /\ UNCHANGED <<cur, receiver, pending, replies, trace, sent, rpc, hist, handles, closed>>
    /\ UNCHANGED <<fanVars, walVars>>

(* the users of the run that fills the channel place on either side and      *)
(* cancel what was placed                                                    *)
LiveQuantities == {1}

ProducePlace ==
    \E u \in Users, s \in Sides, p \in ProcPrices, q \in LiveQuantities :
        Produce(CmdPlaceOrder(sent + 1, u, sent + 1, s, p, q))

NextLive ==
    \/ Startup
    \/ ProducePlace
    \/ \E id \in 1..sent, u \in Users : Produce(CmdCancelOrder(sent + 1, u, id))
    \/ CloseSenders
    \/ Recv
    \/ WalWriteOk
    \/ Execute
    \/ Broadcast
    \/ Respond
    \/ RunEnds

(* the processor is one task of the runtime: it is scheduled whenever it can *)
(* take a step, and no step of it waits for anything but the next command    *)
ProcessorStep ==
    \/ Startup
    \/ Recv
    \/ WalWriteOk
    \/ Execute
    \/ Broadcast
    \/ Respond
    \/ RunEnds

SpecLive == Init /\ [][NextLive]_vars /\ WF_vars(ProcessorStep)

(* ---- the WAL on its own: opened, appended to, dropped or killed ---- *)
(* MarketProcessor::new as far as the WAL goes: read_all, then WalHandler::new *)
WalRecover ==
    /\ pc = "down"
    /\ replayed' = read_all(wal_file)
    /\ wal_file' = wal_open(wal_file)
    /\ wal_buf' = <<>>
    /\ pc' = "recv"
    /\ UNCHANGED appended
    /\ UNCHANGED bookVars
    /\ UNCHANGED <<cur, receiver, pending, replies, trace, sent, rpc, hist, handles>>
    /\ UNCHANGED fanVars
    /\ UNCHANGED closed

(* self.wal.write_entry(&entry) returns Ok *)
WalAppend(entry) ==
    /\ pc = "recv"
    /\ Len(appended) < MaxAppends
    /\ \E r \in {write_entry([file |-> wal_file, buf |-> wal_buf],
                            encode(entry, Len(appended) + 1), FALSE)} :
         /\ wal_file' = r.file
         /\ wal_buf' = r.buf
    /\ appended' = Append(appended, entry)
    /\ UNCHANGED replayed
    /\ UNCHANGED bookVars
    /\ UNCHANGED <<pc, cur, receiver, pending, replies, trace, sent, rpc, hist, handles>>
    /\ UNCHANGED fanVars
    /\ UNCHANGED closed

(* the WalHandler is dropped: the BufWriter writes its buffer out *)
WalDrop ==
    /\ pc = "recv"
    /\ wal_file' = wal_file \o wal_buf
    /\ wal_buf' = <<>>
    /\ pc' = "down"
    /\ UNCHANGED walVars
    /\ UNCHANGED bookVars
    /\ UNCHANGED <<cur, receiver, pending, replies, trace, sent, rpc, hist, handles>>
    /\ UNCHANGED fanVars
    /\ UNCHANGED closed

(* the process is killed: what the BufWriter holds is lost *)
WalKill ==
    /\ pc = "recv"
    /\ wal_buf' = <<>>
    /\ pc' = "down"
    /\ UNCHANGED wal_file
    /\ UNCHANGED walVars
    /\ UNCHANGED bookVars
    /\ UNCHANGED <<cur, receiver, pending, replies, trace, sent, rpc, hist, handles>>
    /\ UNCHANGED fanVars
    /\ UNCHANGED closed

(* one user places, on either side, and cancels what was placed *)
WalUsers == {1}

NextWal ==
    \/ WalRecover
    \/ \E u \in WalUsers, s \in Sides, p \in ProcPrices, q \in Quantities :
          WalAppend(LogPlace(Len(appended) + 1, u, s, p, q))
    \/ \E id \in 1..Len(appended), u \in WalUsers : WalAppend(LogCancel(id, u))
    \/ WalDrop
    \/ WalKill

SpecWal == Init /\ [][NextWal]_vars

(* the place requests of a client that sends anything, and their processing *)
NextApi ==
    \/ Startup
    \/ \E u \in Users, s \in WireSides, p \in WirePrices, q \in WireQuantities :
          PlaceRequest(sent + 1, u, s, p, q)
    \/ Recv
    \/ WalWriteOk
    \/ Execute
    \/ Broadcast
    \/ Respond

SpecApi == Init /\ [][NextApi]_vars

(* ---- the WebSocket handlers on the broadcast channel ---- *)
(* the processor gives one more event to the broadcaster, whatever the      *)
(* command it belongs to                                                    *)
Publish ==
    /\ pc # "down"
    /\ Len(published) < MaxEvents
    /\ published' = broadcast_send(published,
                                   [n |-> Len(published) + 1,
                                    event |-> OrderCancelled(Len(published) + 1)])
    /\ UNCHANGED <<bookVars, procVars, subs>>
    /\ UNCHANGED walVars

(* handle_socket starts: broadcast_tx.subscribe() *)
WsConnect(s) ==
    /\ pc # "down"
    /\ subs[s].state = "none"
    /\ subs' = [subs EXCEPT ![s] = [state |-> "open", next |-> Len(published) + 1,
                                    seen |-> <<>>, lagged |-> 0]]
    /\ UNCHANGED <<bookVars, procVars, published>>
    /\ UNCHANGED walVars

(* rx.recv() returns Ok(event) and the socket takes the message *)
WsRecvOk(s) ==
    /\ subs[s].state = "open"
    /\ subs[s].next >= oldest_retained(Len(published))
    /\ subs[s].next <= Len(published)
    /\ subs' = [subs EXCEPT ![s].seen = Append(@, published[subs[s].next]),
                            ![s].next = @ + 1]
    /\ UNCHANGED <<bookVars, procVars, published>>
    /\ UNCHANGED walVars

(* rx.recv() returns Ok(event) and socket.send fails: break *)
WsSendFails(s) ==
    /\ subs[s].state = "open"
    /\ subs[s].next >= oldest_retained(Len(published))
    /\ subs[s].next <= Len(published)
    /\ subs' = [subs EXCEPT ![s].state = "closed"]
    /\ UNCHANGED <<bookVars, procVars, published>>
    /\ UNCHANGED walVars

(* rx.recv() returns Err(Lagged(n)): the while let ends *)
WsRecvLagged(s) ==
    /\ subs[s].state = "open"
    /\ subs[s].next < oldest_retained(Len(published))
    /\ subs' = [subs EXCEPT ![s].state = "closed",
                            ![s].lagged = oldest_retained(Len(published)) - subs[s].next,
                            ![s].next = oldest_retained(Len(published))]
    /\ UNCHANGED <<bookVars, procVars, published>>
    /\ UNCHANGED walVars

NextFanout ==
    \/ Startup
    \/ Publish
    \/ \E s \in Subs : WsConnect(s)
    \/ \E s \in Subs : WsRecvOk(s)
    \/ \E s \in Subs : WsSendFails(s)
    \/ \E s \in Subs : WsRecvLagged(s)

SpecFanout == Init /\ [][NextFanout]_vars

(***************************************************************************)
(* Properties                                                              *)
(***************************************************************************)
Resting == LiveOrders(order_store)
RestingSide(store, side) == {o \in LiveOrders(store) : o.side = side}
Opposite(side) == IF side = "Bid" THEN "Ask" ELSE "Bid"
IsResting(store, id) == \E o \in LiveOrders(store) : o.id = id

EventsOfType(evs, type) == SelectSeq(evs, LAMBDA e : e.type = type)
Trades(evs) == EventsOfType(evs, "TradeExecuted")
StepsOfKind(ss, kind) == SelectSeq(ss, LAMBDA x : x.kind = kind)

RECURSIVE SumQty(_)
SumQty(seq) == IF seq = <<>> THEN 0 ELSE Head(seq).quantity + SumQty(Tail(seq))

RECURSIVE SumSet(_)
SumSet(orders) ==
    IF orders = {} THEN 0
    ELSE LET o == CHOOSE x \in orders : TRUE IN o.quantity + SumSet(orders \ {o})

(* the order ids of a level queue, front first *)
QueueIds(store, q) == [i \in 1..Len(q) |-> IF q[i] \in DOMAIN store.live
                                           THEN store.live[q[i]].id ELSE 0]

(* C1: no-cross at rest: after every call either one side of the book is   *)
(* empty or the highest resting bid price is strictly below the lowest     *)
(* resting ask price (by the price levels and by the stored orders).       *)
C1_NoCross ==
    /\ \/ DOMAIN bids = {}
       \/ DOMAIN asks = {}
       \/ SetMax(DOMAIN bids) < SetMin(DOMAIN asks)
    /\ \A b \in RestingSide(order_store, "Bid"), a \in RestingSide(order_store, "Ask") :
          b.price < a.price

(* a taker traded, rested with its remainder, and both sides are populated *)
C1_Witness ==
    /\ cmd.op = "place"
    /\ Len(Trades(events)) > 0
    /\ Len(EventsOfType(events, "OrderPlaced")) > 0
    /\ RestingSide(order_store, "Bid") # {}
    /\ RestingSide(order_store, "Ask") # {}

(* C2: index coherence: every id in order_index points to a live slot that *)
(* holds the order with that id.                                           *)
C2_IndexCoherent ==
    \A id \in DOMAIN order_index :
        /\ slab_contains(order_store, order_index[id])
        /\ order_store.live[order_index[id]].id = id

(* C3: cancel_order for an id that is not resting returns no event and     *)
(* leaves every resting order and price level unchanged.                   *)
C3_CancelNotRestingNoop ==
    [][(cmd'.op = "cancel" /\ ~IsResting(order_store, cmd'.order_id))
        => /\ events' = <<>>
           /\ LiveOrders(order_store') = LiveOrders(order_store)
           /\ bids' = bids
           /\ asks' = asks]_vars

(* the remaining quantity of the incoming order when the taker phase ends *)
RemainingAfter(c, ss) == IF ss = <<>> THEN c.quantity ELSE ss[Len(ss)].out_qty

PlacedQty(evs) == SumQty(EventsOfType(evs, "OrderPlaced"))

(* the pre-state quantities of the makers a call evicted, by its events *)
EvictedOrders(store, evs) ==
    {o \in LiveOrders(store) :
        \E i \in 1..Len(evs) : evs[i].type = "OrderCancelled" /\ evs[i].id = o.id}

(* C4: quantity conservation: the quantity of a place_limit_order call     *)
(* equals the sum of its trades (all with the incoming id as taker) plus   *)
(* the quantity of its OrderPlaced event, if any; and what the trades took *)
(* from the resting makers is that same trade sum.                         *)
C4_QuantityConservation ==
    [][cmd'.op = "place" =>
        LET traded == SumQty(Trades(events'))
            opp == Opposite(cmd'.side)
        IN /\ cmd'.quantity = traded + PlacedQty(events')
           /\ Len(EventsOfType(events', "OrderPlaced")) <= 1
           /\ \A i \in 1..Len(events') :
                 events'[i].type = "TradeExecuted" => events'[i].taker_id = cmd'.order_id
           /\ SumSet(RestingSide(order_store, opp))
                - SumSet(EvictedOrders(order_store, events'))
                - SumSet(RestingSide(order_store', opp)) = traded]_vars

(* a taker that filled one maker completely, another partly, and is done *)
C4_Witness ==
    /\ cmd.op = "place"
    /\ cmd.quantity = 2
    /\ Len(Trades(events)) = 2
    /\ Len(EventsOfType(events, "OrderPlaced")) = 0
    /\ RestingSide(order_store, Opposite(cmd.side)) # {}

(* C5: self-trade prevention: no trade pairs a maker and a taker of the    *)
(* same user; a front maker of the incoming user is removed from the book  *)
(* with OrderCancelled{maker.id}, the incoming quantity is not reduced by  *)
(* that step, matching goes on, and an incoming order that still has       *)
(* quantity at the end rests with OrderPlaced.                             *)
C5_SelfTradePrevention ==
    [][cmd'.op = "place" =>
        /\ \A i \in 1..Len(events') :
              events'[i].type = "TradeExecuted" =>
                 /\ IsResting(order_store, events'[i].maker_id)
                 /\ RestingIn(order_store, events'[i].maker_id).user_id # cmd'.user_id
        /\ \A j \in 1..Len(steps') :
              steps'[j].maker.user_id = cmd'.user_id =>
                 /\ steps'[j].kind = "stp"
                 /\ steps'[j].out_qty = steps'[j].in_qty
                 /\ \E i \in 1..Len(events') : events'[i] = OrderCancelled(steps'[j].maker.id)
                 /\ steps'[j].maker \in LiveOrders(order_store)
                 /\ ~IsResting(order_store', steps'[j].maker.id)
                 /\ \A q \in {bids'[p] : p \in DOMAIN bids'} \cup {asks'[p] : p \in DOMAIN asks'} :
                       \A k \in 1..Len(q) :
                          q[k] = steps'[j].maker_idx => order_store'.live[q[k]].id = cmd'.order_id
        /\ RemainingAfter(cmd', steps') > 0 =>
              /\ events'[Len(events')] = OrderPlaced(cmd'.order_id, cmd'.user_id, cmd'.price,
                                                     RemainingAfter(cmd', steps'), cmd'.side)
              /\ RestingIn(order_store', cmd'.order_id)
                    = Order(cmd'.order_id, cmd'.user_id, cmd'.price,
                            RemainingAfter(cmd', steps'), cmd'.side)
              /\ \A o \in RestingSide(order_store', Opposite(cmd'.side)) :
                    ~is_matchable(cmd'.side, o.price, cmd'.price)]_vars

(* an own maker was evicted, then a foreign maker traded, then the rest rested *)
C5_Witness ==
    /\ cmd.op = "place"
    /\ Len(events) = 3
    /\ events[1].type = "OrderCancelled"
    /\ events[2].type = "TradeExecuted"
    /\ events[3].type = "OrderPlaced"

(* C6: price priority: the trades of one call come in match order with     *)
(* prices non-decreasing for a bid and non-increasing for an ask, and a    *)
(* maker at price p trades only when no opposite-side order at a strictly  *)
(* better price is resting at that moment.                                 *)
C6_PricePriority ==
    cmd.op = "place" =>
        LET T == Trades(events)
            S == StepsOfKind(steps, "trade")
        IN /\ \A i \in 1..Len(T), j \in 1..Len(T) :
                 i < j => IF cmd.side = "Bid" THEN T[i].price <= T[j].price
                                              ELSE T[i].price >= T[j].price
           /\ Len(S) = Len(T)
           /\ \A i \in 1..Len(S) :
                 /\ T[i].maker_id = S[i].maker.id
                 /\ \A p \in S[i].opp_prices :
                       IF cmd.side = "Bid" THEN S[i].maker.price <= p
                                           ELSE S[i].maker.price >= p

(* one taker consumed two price levels *)
C6_Witness ==
    /\ cmd.op = "place"
    /\ \E i, j \in 1..Len(events) :
          /\ events[i].type = "TradeExecuted"
          /\ events[j].type = "TradeExecuted"
          /\ events[i].price # events[j].price

(* C7: every trade carries the resting maker's price, within the taker's   *)
(* limit; maker_id is the resting order, taker_id the incoming order and   *)
(* the quantity is min(incoming remaining, maker remaining) at that moment.*)
C7_TradeAtMakerPrice ==
    cmd.op = "place" =>
        LET T == Trades(events)
            S == StepsOfKind(steps, "trade")
        IN /\ Len(S) = Len(T)
           /\ \A i \in 1..Len(T) :
                 /\ T[i].price = S[i].maker.price
                 /\ IF cmd.side = "Bid" THEN T[i].price <= cmd.price
                                        ELSE T[i].price >= cmd.price
                 /\ T[i].maker_id = S[i].maker.id
                 /\ S[i].maker.id \in S[i].level_ids
                 /\ S[i].maker.side = Opposite(cmd.side)
                 /\ T[i].taker_id = cmd.order_id
                 /\ T[i].quantity = (IF S[i].in_qty <= S[i].maker.quantity
                                     THEN S[i].in_qty ELSE S[i].maker.quantity)
                 /\ T[i].quantity > 0

(* a trade priced at the maker's price, different from the taker's limit *)
C7_Witness ==
    /\ cmd.op = "place"
    /\ \E i \in 1..Len(events) :
          events[i].type = "TradeExecuted" /\ events[i].price # cmd.price

Ascending(ids) == \A i \in 1..Len(ids), j \in 1..Len(ids) : i < j => ids[i] < ids[j]

SideMap(b, a, side) == IF side = "Bid" THEN b ELSE a

(* C8: FIFO at price: order ids are handed out in arrival order, so FIFO   *)
(* says that every level queue lists its orders by ascending id after      *)
(* every call (hence no place, cancel or eviction reorders the orders that *)
(* stay at a level); the maker an iteration takes is the earliest arrival  *)
(* still resting at its level; and a partially filled maker stays at the   *)
(* front of its level with the rest of its quantity.                       *)
C8_FifoAtPrice ==
    /\ \A side \in Sides :
          \A p \in DOMAIN SideMap(bids, asks, side) :
             Ascending(QueueIds(order_store, SideMap(bids, asks, side)[p]))
    /\ cmd.op = "place" =>
          \A j \in 1..Len(steps) :
             /\ steps[j].maker.id = SetMin(steps[j].level_ids)
             /\ (steps[j].kind = "trade" /\ steps[j].maker.quantity > steps[j].in_qty) =>
                   LET q == SideMap(bids, asks, steps[j].maker.side)[steps[j].maker.price]
                   IN /\ q[1] = steps[j].maker_idx
                      /\ order_store.live[q[1]].id = steps[j].maker.id
                      /\ order_store.live[q[1]].quantity
                            = steps[j].maker.quantity - steps[j].in_qty

(* a front maker was partly filled and still heads a level of two orders *)
C8_Witness ==
    /\ cmd.op = "place"
    /\ \E j \in 1..Len(steps) :
          /\ steps[j].kind = "trade"
          /\ steps[j].maker.quantity > steps[j].in_qty
          /\ Cardinality(steps[j].level_ids) >= 2
          /\ Len(SideMap(bids, asks, steps[j].maker.side)[steps[j].maker.price]) >= 2

(* C9: unauthorized cancel: cancel_order for a resting order of another    *)
(* user returns no event and leaves the store, both price indexes and the  *)
(* order index unchanged.                                                  *)
C9_UnauthorizedCancel ==
    [][(/\ cmd'.op = "cancel"
        /\ IsResting(order_store, cmd'.order_id)
        /\ RestingIn(order_store, cmd'.order_id).user_id # cmd'.user_id)
        => /\ events' = <<>>
           /\ order_store' = order_store
           /\ bids' = bids
           /\ asks' = asks
           /\ order_index' = order_index]_vars

(* a cancel by the wrong user of an order that rests *)
C9_Witness ==
    /\ cmd.op = "cancel"
    /\ cmd.target.id = cmd.order_id
    /\ cmd.target.user_id # cmd.user_id
    /\ events = <<>>
    /\ cmd.target \in LiveOrders(order_store)

(* C10: authorized cancel: cancel_order by the owner of a resting order    *)
(* returns exactly [OrderCancelled{order_id}], removes that order's slot   *)
(* from its level queue (once), from the order index and from the store,   *)
(* drops the level if it became empty and leaves all else unchanged.       *)
C10_AuthorizedCancel ==
    [][(/\ cmd'.op = "cancel"
        /\ cmd'.target \in LiveOrders(order_store)
        /\ cmd'.target.id = cmd'.order_id
        /\ cmd'.target.user_id = cmd'.user_id)
        => LET o == cmd'.target
               slot == CHOOSE k \in DOMAIN order_store.live : order_store.live[k] = o
               own == SideMap(bids, asks, o.side)
               own_after == SideMap(bids', asks', o.side)
               level == SelectSeq(own[o.price], LAMBDA k : k # slot)
           IN /\ events' = <<OrderCancelled(cmd'.order_id)>>
              /\ order_store'.live = MapRemove(order_store.live, slot)
              /\ order_index' = MapRemove(order_index, cmd'.order_id)
              /\ cmd'.order_id \in DOMAIN order_index
              /\ Len(own[o.price]) = Len(level) + 1
              /\ DOMAIN own_after = IF level = <<>> THEN DOMAIN own \ {o.price} ELSE DOMAIN own
              /\ \A p \in DOMAIN own_after :
                    own_after[p] = IF p = o.price THEN level ELSE own[p]
              /\ SideMap(bids', asks', Opposite(o.side)) = SideMap(bids, asks, Opposite(o.side))]_vars

(* the owner cancelled an order and another order stays at its level *)
C10_Witness ==
    /\ cmd.op = "cancel"
    /\ cmd.target.id = cmd.order_id
    /\ cmd.target.user_id = cmd.user_id
    /\ events = <<OrderCancelled(cmd.order_id)>>
    /\ cmd.target.price \in DOMAIN SideMap(bids, asks, cmd.target.side)

(* the resting quantity at one price of one side *)
LevelQty(store, side, price) ==
    SumSet({o \in RestingSide(store, side) : o.price = price})

SidePrices(store, side) == {o.price : o \in RestingSide(store, side)}

MinOf(a, b) == IF a <= b THEN a ELSE b

(* one side of a depth reply: at most limit levels, the best ones, in order *)
(* from the best price, each with the sum of its resting quantities        *)
DepthSideOk(levels, store, side, limit) ==
    LET prices == SidePrices(store, side) IN
    /\ Len(levels) = MinOf(limit, Cardinality(prices))
    /\ \A i \in 1..Len(levels) :
          /\ levels[i].price \in prices
          /\ levels[i].quantity = LevelQty(store, side, levels[i].price)
          /\ levels[i].quantity > 0
    /\ \A i \in 1..Len(levels), j \in 1..Len(levels) :
          i < j => IF side = "Ask" THEN levels[i].price < levels[j].price
                                   ELSE levels[i].price > levels[j].price
    /\ \A i \in 1..Len(levels) :
          \A p \in prices \ {levels[k].price : k \in 1..Len(levels)} :
             IF side = "Ask" THEN levels[i].price < p ELSE levels[i].price > p

(* C15: get_depth(limit) returns at most limit levels per side, asks       *)
(* strictly ascending from the lowest ask and bids strictly descending     *)
(* from the highest bid, each with the sum of the remaining quantities     *)
(* resting at that price, and the call changes no book state.              *)
C15_GetDepth ==
    [][cmd'.op = "depth" =>
        /\ DepthSideOk(depth'.asks, order_store, "Ask", cmd'.quantity)
        /\ DepthSideOk(depth'.bids, order_store, "Bid", cmd'.quantity)
        /\ UNCHANGED <<order_store, bids, asks, order_index>>]_vars

(* a depth of one level that cuts off a second level, over a level of two orders *)
C15_Witness ==
    /\ cmd.op = "depth"
    /\ cmd.quantity = 1
    /\ \E side \in Sides :
          /\ Cardinality(SidePrices(order_store, side)) = 2
          /\ Len(IF side = "Ask" THEN depth.asks ELSE depth.bids) = 1
          /\ \E p \in Prices :
                Cardinality({o \in RestingSide(order_store, side) : o.price = p}) = 2

(* C17: a place_limit_order call returns an OrderPlaced event exactly when *)
(* the incoming order has quantity left after the taker phase; it is then  *)
(* the last event, carries the incoming id, user, side, price and the      *)
(* remaining quantity, and the order rests at the back of its level.       *)
C17_OrderPlacedOnce ==
    cmd.op = "place" =>
        LET remaining == cmd.quantity - SumQty(Trades(events))
            placed == EventsOfType(events, "OrderPlaced")
            resting == Order(cmd.order_id, cmd.user_id, cmd.price, remaining, cmd.side)
        IN /\ Len(placed) = (IF remaining > 0 THEN 1 ELSE 0)
           /\ remaining = RemainingAfter(cmd, steps)
           /\ remaining > 0 =>
                 /\ events[Len(events)] = OrderPlaced(cmd.order_id, cmd.user_id, cmd.price,
                                                      remaining, cmd.side)
                 /\ cmd.price \in DOMAIN SideMap(bids, asks, cmd.side)
                 /\ LET q == SideMap(bids, asks, cmd.side)[cmd.price]
                    IN /\ slab_contains(order_store, q[Len(q)])
                       /\ order_store.live[q[Len(q)]] = resting
                       /\ \A i \in 1..(Len(q) - 1) : q[i] # q[Len(q)]
                 /\ Cardinality({o \in LiveOrders(order_store) : o.id = cmd.order_id}) = 1
           /\ remaining = 0 => ~IsResting(order_store, cmd.order_id)

(* a taker traded part of its quantity and rests with the remainder *)
C17_Witness ==
    /\ cmd.op = "place"
    /\ Len(Trades(events)) > 0
    /\ \E i \in 1..Len(events) :
          events[i].type = "OrderPlaced" /\ events[i].quantity < cmd.quantity

(* ---- the structure of the book ---- *)
(* the places (side, price, position) at which the queues hold slot k *)
QueueRefs(b, a, k) ==
    {<<side, price, i>> \in
        UNION {{<<side, price, i>> : i \in 1..Len(SideMap(b, a, side)[price])} :
               <<side, price>> \in
                 {<<"Bid", p>> : p \in DOMAIN b} \cup {<<"Ask", p>> : p \in DOMAIN a}} :
        SideMap(b, a, side)[price][i] = k}

(* C25: the book is well formed after every command: every slot in a bid or *)
(* ask queue holds a live order of that side and that price, every live     *)
(* order is in exactly one queue, exactly once, order_index maps the id of  *)
(* every live order to its slot, no price level has an empty queue, and the *)
(* expect("Stale index in queue") of the matcher has never fired.           *)
C25_BookWellFormed ==
    /\ \A side \in Sides : \A price \in DOMAIN SideMap(bids, asks, side) :
         /\ SideMap(bids, asks, side)[price] # <<>>
         /\ \A i \in DOMAIN SideMap(bids, asks, side)[price] :
              /\ slab_contains(order_store, SideMap(bids, asks, side)[price][i])
              /\ order_store.live[SideMap(bids, asks, side)[price][i]].side = side
              /\ order_store.live[SideMap(bids, asks, side)[price][i]].price = price
    /\ \A k \in DOMAIN order_store.live :
         /\ Cardinality(QueueRefs(bids, asks, k)) = 1
         /\ order_store.live[k].id \in DOMAIN order_index
         /\ order_index[order_store.live[k].id] = k
    /\ ~panicked

(* a maker was filled and its slot is used again by a later order that      *)
(* rests, while order_index still maps the id of the filled maker to it     *)
C25_Witness ==
    \E id \in DOMAIN order_index :
        /\ ~IsResting(order_store, id)
        /\ slab_contains(order_store, order_index[id])
        /\ order_store.live[order_index[id]].id > id
        /\ Cardinality(QueueRefs(bids, asks, order_index[id])) = 1

(* what the trades of a call took from the maker id *)
FilledBy(evs, id) == SumQty(SelectSeq(Trades(evs), LAMBDA e : e.maker_id = id))

(* the number of OrderCancelled events of a call for id *)
CancelledBy(evs, id) ==
    Len(SelectSeq(EventsOfType(evs, "OrderCancelled"), LAMBDA e : e.id = id))

(* C26: remaining quantity: after every command every resting order has a   *)
(* quantity above 0; an order that rests before and after a call is the     *)
(* same order with its quantity reduced by what the call traded against it; *)
(* an order that rests before and not after a call was filled to 0 by the   *)
(* call, or cancelled by a cancel_order for its id from its owner, or       *)
(* evicted by a place of its owner; and every OrderCancelled and every      *)
(* trade of a call names an order that rested before the call, so that an   *)
(* order leaves once.                                                       *)
C26_RemainingQuantity ==
    [][/\ \A o \in LiveOrders(order_store') : o.quantity > 0
       /\ \A o \in LiveOrders(order_store) :
            IF IsResting(order_store', o.id)
            THEN /\ RestingIn(order_store', o.id)
                      = [o EXCEPT !.quantity = o.quantity - FilledBy(events', o.id)]
                 /\ CancelledBy(events', o.id) = 0
            ELSE \/ /\ cmd'.op = "place"
                    /\ FilledBy(events', o.id) = o.quantity
                    /\ CancelledBy(events', o.id) = 0
                 \/ /\ cmd'.op = "cancel"
                    /\ cmd'.order_id = o.id
                    /\ cmd'.user_id = o.user_id
                    /\ events' = <<OrderCancelled(o.id)>>
                 \/ /\ cmd'.op = "place"
                    /\ cmd'.user_id = o.user_id
                    /\ FilledBy(events', o.id) = 0
                    /\ CancelledBy(events', o.id) = 1
       /\ \A i \in DOMAIN events' :
            /\ events'[i].type = "OrderCancelled" => IsResting(order_store, events'[i].id)
            /\ events'[i].type = "TradeExecuted" =>
                 IsResting(order_store, events'[i].maker_id)]_vars

(* ---- the processor, its log and its restarts ---- *)
BookNext ==
    [order_store |-> order_store', bids |-> bids', asks |-> asks',
     order_index |-> order_index']

IsStartup == pc = "down" /\ pc' = "recv"

(* C11: replay equivalence: when no append failed and no tail was lost, a   *)
(* processor started on the WAL of the previous runs rebuilds a book whose  *)
(* depth snapshot, every level of both sides, is that of the book at the    *)
(* moment the previous run stopped, whatever Place, Cancel and GetDepth     *)
(* commands were processed and however many restarts came before.           *)
C11_ReplayEquivalence ==
    [][(IsStartup /\ hist.clean) => Snapshot(BookNext) = hist.depth]_vars

(* a third start on a whole log of two records, one of which traded, with   *)
(* an order left in the book                                                *)
C11_Witness ==
    /\ pc = "recv"
    /\ hist.clean
    /\ hist.boot >= 2
    /\ sent = hist.boot
    /\ Len(read_all(wal_file)) >= 2
    /\ hist.depth # NoDepth
    /\ Snapshot(Book) = hist.depth
    /\ \E i \in DOMAIN replies :
         replies[i].op = "place" /\ Trades(replies[i].value) # <<>>

(* the commands whose record is whole in the file *)
Persisted(file) ==
    {file[j].n : j \in {k \in DOMAIN file :
                          /\ file[k].part = file[k].of
                          /\ k >= file[k].of
                          /\ \A i \in 1..file[k].of :
                               /\ file[k - file[k].of + i].part = i
                               /\ file[k - file[k].of + i].n = file[k].n}}

(* the Place and Cancel commands with an event broadcast or the reply sent *)
Acked ==
    {trace[j].n : j \in {k \in DOMAIN trace :
                           trace[k].kind \in {"bcast", "reply"}
                           /\ trace[k].op \in {"place", "cancel"}}}

(* C12: durability of acknowledged commands: every Place or Cancel command  *)
(* whose events have been broadcast or whose reply has been sent has its    *)
(* record in the WAL file, so that a replay after a crash reflects it.      *)
C12_AckedIsPersisted == Acked \subseteq Persisted(wal_file)

Has(kind, n) == \E i \in DOMAIN trace : trace[i].kind = kind /\ trace[i].n = n

Pos(kind, n) == CHOOSE i \in DOMAIN trace : trace[i].kind = kind /\ trace[i].n = n

(* the items of a sequence tagged with commands come in dequeue order: where *)
(* the command changes from one item to the next, the next one's command    *)
(* was dequeued later (so the items of a command are together, and any two  *)
(* items of different commands are in the order of their dequeues)          *)
InDequeueOrder(seq) ==
    \A a \in 1..(Len(seq) - 1) :
        seq[a].n # seq[a + 1].n =>
            /\ Has("recv", seq[a].n)
            /\ Has("recv", seq[a + 1].n)
            /\ Pos("recv", seq[a].n) < Pos("recv", seq[a + 1].n)

(* C13: processor ordering: for commands A and B dequeued in that order,    *)
(* everything the processor does for A (log, book operation, broadcasts,    *)
(* reply) comes before B is dequeued and nothing is done for B before: the  *)
(* side effects change command only at a dequeue, of a command not seen     *)
(* before, right after the reply of the previous one (or the death of the   *)
(* process on it); and the records of the WAL, the published events and     *)
(* the replies are in dequeue order.                                        *)
C13_ProcessorOrdering ==
    /\ trace # <<>> => trace[1].kind = "recv"
    /\ \A j \in 2..Len(trace) :
         /\ trace[j].kind = "recv" => trace[j].n # trace[j - 1].n
         /\ trace[j].n # trace[j - 1].n =>
              /\ trace[j].kind = "recv"
              /\ trace[j - 1].kind \in {"reply", "lost"}
              /\ \A k \in 1..(j - 1) : trace[k].n # trace[j].n
    /\ InDequeueOrder(wal_file \o wal_buf)
    /\ InDequeueOrder(published)
    /\ InDequeueOrder(replies)

(* two commands went through in one run, each logged, broadcast and replied *)
C13_Witness ==
    \E a, b \in 1..sent :
        /\ a # b
        /\ \A n \in {a, b} :
             /\ Has("reply", n)
             /\ \E i \in DOMAIN published : published[i].n = n
             /\ \E i \in DOMAIN wal_file \cup DOMAIN wal_buf :
                  (wal_file \o wal_buf)[i].n = n

(* the steps that may follow one another for one Place or Cancel command *)
StepsInOrder(prev, next) ==
    \/ prev = "recv" /\ next = "log"
    \/ prev = "log" /\ next = "apply"
    \/ prev = "apply" /\ next \in {"bcast", "reply"}
    \/ prev = "bcast" /\ next \in {"bcast", "reply"}
    \/ prev # "reply" /\ next = "lost"

(* C14: WAL precedes memory: for every Place and Cancel command the append  *)
(* call has returned before the book is called, the book is called before   *)
(* any of its events is broadcast, and every event of the call has been     *)
(* broadcast before the reply is sent: log, apply, broadcast, reply.        *)
C14_WalPrecedesMemory ==
    /\ \A j \in DOMAIN trace :
         trace[j].op \in {"place", "cancel"} =>
            IF j > 1 /\ trace[j - 1].n = trace[j].n
            THEN StepsInOrder(trace[j - 1].kind, trace[j].kind)
            ELSE /\ trace[j].kind = "recv"
                 /\ \A k \in 1..(j - 1) : trace[k].n # trace[j].n
    /\ \A i \in DOMAIN replies :
         replies[i].op \in {"place", "cancel"} =>
            Len(SelectSeq(trace, LAMBDA e : e.kind = "bcast" /\ e.n = replies[i].n))
              = Len(replies[i].value)

(* a Place that was logged, traded and rested, with both events broadcast   *)
(* before its reply                                                         *)
C14_Witness ==
    \E i \in DOMAIN replies :
        /\ replies[i].op = "place"
        /\ Len(replies[i].value) >= 2
        /\ Has("log", replies[i].n)

(* C19: replay is silent: the startup sends nothing to the broadcaster and  *)
(* appends nothing to the WAL, whose content after the startup is its       *)
(* content before; what the broadcaster is given are events of commands     *)
(* dequeued after the startup.                                              *)
C19_ReplaySilent ==
    [][/\ IsStartup =>
            /\ wal_file' = wal_file
            /\ wal_buf' = <<>>
            /\ published' = <<>>
            /\ UNCHANGED <<replies, trace>>
       /\ \A i \in DOMAIN published' : published'[i].n > hist'.boot]_vars

(* a start that rebuilt resting orders from a log, with nothing published *)
C19_Witness ==
    /\ pc = "recv"
    /\ sent = hist.boot
    /\ read_all(wal_file) # <<>>
    /\ LiveOrders(order_store) # {}
    /\ published = <<>>

(* C20: a GetDepth command appends nothing to the WAL, broadcasts nothing   *)
(* and leaves the book unchanged; its reply is the (asks, bids) of the book *)
(* as it is when the command's turn comes.                                  *)
C20_GetDepthReadOnly ==
    [][((cur.op = "depth" \/ cur'.op = "depth") /\ pc' # "down") =>
          /\ UNCHANGED <<wal_file, wal_buf, published>>
          /\ UNCHANGED <<order_store, bids, asks, order_index>>
          /\ (pc = "reply" /\ pc' = "recv") =>
                replies' = Append(replies, [n |-> cur.n, op |-> "depth",
                                            value |-> get_depth(Book, cur.quantity)])]_vars

(* a depth reply with a level in it, after a Place was logged *)
C20_Witness ==
    \E i \in DOMAIN replies :
        /\ replies[i].op = "depth"
        /\ replies[i].value.asks \o replies[i].value.bids # <<>>
        /\ wal_file \o wal_buf # <<>>

(* ---- error handling of the processor ---- *)
(* the caller of the current command went away before the reply *)
CallerGone == cur # NoCmd /\ cur.n \in DOMAIN handles /\ handles[cur.n] = "dropped"

(* the book is called with the arguments of the current command, and what   *)
(* it returns is what will be broadcast                                     *)
BookCallStep ==
    \E r \in {replay_entry(Book, log_entry(cur))} :
        /\ BookNext = BookOf(r)
        /\ events' = r.events
        /\ pending' = r.events
        /\ pc' = after_apply(r.events)

(* the next event of the current command is given to the broadcaster *)
BroadcastStep ==
    /\ published' = Append(published, [n |-> cur.n, event |-> Head(pending)])
    /\ pending' = Tail(pending)
    /\ pc' = IF Tail(pending) = <<>> THEN "reply" ELSE "bcast"

(* the events of the book call are sent to the responder, nothing else      *)
(* changes and the processor is back at the queue                           *)
ReplyStep ==
    /\ replies' = Append(replies, [n |-> cur.n, op |-> cur.op, value |-> events])
    /\ pc' = "recv"
    /\ cur' = NoCmd
    /\ UNCHANGED <<order_store, bids, asks, order_index, panicked>>
    /\ UNCHANGED <<wal_file, wal_buf, published, receiver>>

(* C21: dropped reply handle: when the caller of an enqueued Place or       *)
(* Cancel has dropped its reply handle before the processor replies, every  *)
(* step the processor takes for the command is the step it takes for a      *)
(* waiting caller: the record is appended, the book call is the call of the *)
(* command and its events are broadcast one by one; the reply-send fails,   *)
(* changes nothing, and the processor is back at the queue, where it can    *)
(* take the next command.                                                   *)
C21_DroppedReplyHandle ==
    [][/\ (CallerGone /\ is_logged(cur) /\ trace' # trace) =>
            /\ pc = "log" =>
                 /\ \E w \in {write_entry([file |-> wal_file, buf |-> wal_buf],
                                         encode(log_entry(cur), cur.n), FALSE)} :
                       wal_file' = w.file /\ wal_buf' = w.buf
                 /\ pc' = "apply"
            /\ pc = "apply" => BookCallStep
            /\ pc = "bcast" => BroadcastStep
            /\ pc = "reply" =>
                 /\ ReplyStep
                 /\ handles' = [handles EXCEPT ![cur.n] = "failed"]
       /\ (pc = "recv" /\ receiver # <<>>) => ENABLED Recv]_vars

(* a Place whose caller left was logged and rested, its event was broadcast, *)
(* the reply failed, and the next command has been taken from the queue      *)
C21_Witness ==
    \E n \in DOMAIN handles :
        /\ handles[n] = "failed"
        /\ \E i \in DOMAIN replies :
             /\ replies[i].n = n
             /\ replies[i].op = "place"
             /\ replies[i].value # <<>>
             /\ Len(SelectSeq(published, LAMBDA e : e.n = n)) = Len(replies[i].value)
        /\ n \in Persisted(wal_file \o wal_buf)
        /\ IsResting(order_store, n)
        /\ Has("recv", n + 1)

(* the append of the current command returned an error: its record is not  *)
(* whole in what the writer holds or has written                            *)
AppendFailed(file, buf) ==
    /\ cur # NoCmd
    /\ is_logged(cur)
    /\ cur.n \notin Persisted(file \o buf)

(* C22: a failed WAL append does not abort the command: when write_entry    *)
(* returns an error for a Place or Cancel, the processor goes on to the     *)
(* book call with the book untouched, applies the command, broadcasts its   *)
(* events one by one, sends the events as the reply and is back at the      *)
(* queue, where it can take the next command.                               *)
C22_WalFailureContinues ==
    [][/\ (pc = "log" /\ trace' = Append(trace, Effect("log", cur))
          /\ AppendFailed(wal_file', wal_buf')) =>
            /\ pc' = "apply"
            /\ cur' = cur
            /\ ~hist'.clean
            /\ UNCHANGED <<order_store, bids, asks, order_index, panicked>>
            /\ UNCHANGED <<published, replies, receiver>>
       /\ (AppendFailed(wal_file, wal_buf) /\ trace' # trace /\ pc' # "down") =>
            /\ pc = "apply" => BookCallStep
            /\ pc = "bcast" => BroadcastStep
            /\ pc = "reply" => ReplyStep
       /\ (pc = "recv" /\ receiver # <<>> /\ ~hist.clean) => ENABLED Recv]_vars

(* a Place whose append failed traded all the same, its events were         *)
(* broadcast and sent as the reply, and the processor waits at the queue    *)
C22_Witness ==
    /\ pc = "recv"
    /\ replies # <<>>
    /\ \E c \in {replies[Len(replies)]} :
         /\ c.op = "place"
         /\ Trades(c.value) # <<>>
         /\ Has("log", c.n)
         /\ c.n \notin Persisted(wal_file \o wal_buf)
         /\ SelectSeq(published, LAMBDA e : e.n = c.n)
              = [i \in 1..Len(c.value) |-> [n |-> c.n, event |-> c.value[i]]]
         /\ handles[c.n] = "received"

(* ---- the WAL across restarts ---- *)
RECURSIVE IsSubseq(_, _)
IsSubseq(a, b) ==
    IF a = <<>> THEN TRUE
    ELSE IF b = <<>> THEN FALSE
    ELSE IF Head(a) = Head(b) THEN IsSubseq(Tail(a), Tail(b))
    ELSE IsSubseq(a, Tail(b))

IsPrefix(a, b) == Len(a) <= Len(b) /\ a = SubSeq(b, 1, Len(a))

(* the records of which every field is in the file, in file order *)
RECURSIVE whole_entries(_)
whole_entries(file) ==
    IF file = <<>> THEN <<>>
    ELSE IF /\ Head(file).part = 1
            /\ Len(file) >= Head(file).of
            /\ \A i \in 1..Head(file).of :
                 file[i].part = i /\ file[i].n = Head(file).n
         THEN <<Head(file).entry>>
                \o whole_entries(SubSeq(file, Head(file).of + 1, Len(file)))
         ELSE whole_entries(Tail(file))

(* C23: replay after a crash yields a prefix of the appended entries in     *)
(* write order: what a start replays are entries that were appended, in the *)
(* order of their appends, and they are the first of the records that the   *)
(* crashes have left whole (a crash loses the tail its run had not written  *)
(* out); a file that is not there gives no entries.                         *)
C23_ReplayIsPrefix ==
    /\ IsSubseq(replayed, appended)
    /\ IsPrefix(replayed, whole_entries(wal_file \o wal_buf))
    /\ (pc = "recv" /\ wal_file = <<>>) => replayed = <<>>

(* C24: a crash during a partial append is recoverable: a start on a file   *)
(* that a crash left with a partially written record replays every complete *)
(* record before it, and every later start also replays, in write order,    *)
(* the records that were appended and written out after that start: each    *)
(* start replays exactly the complete records of the file.                  *)
C24_PartialAppendRecoverable ==
    [][(pc = "down" /\ pc' = "recv") => replayed' = whole_entries(wal_file)]_vars

(* ---- progress and shutdown ---- *)
CountOf(seq, kind, n) == Len(SelectSeq(seq, LAMBDA e : e.kind = kind /\ e.n = n))

CallsMade ==
    IF pc = "apply"
    THEN SubSeq(whole_entries(wal_file \o wal_buf), 1,
                Len(whole_entries(wal_file \o wal_buf)) - 1)
    ELSE whole_entries(wal_file \o wal_buf)

C29_OwnershipOnCancel ==
    [][cmd'.op = "cancel" =>
         /\ \A o \in LiveOrders(order_store) \ LiveOrders(order_store') :
              o.user_id = cmd'.user_id
         /\ \A i \in DOMAIN events' :
              events'[i].type = "OrderCancelled" =>
                \A o \in LiveOrders(order_store) :
                    o.id = events'[i].id => o.user_id = cmd'.user_id]_vars

(* a user asked to cancel a resting order of another user: nothing was      *)
(* returned and the order still rests                                       *)
C29_Witness ==
    /\ cmd.op = "cancel"
    /\ cmd.target # NoOrder
    /\ cmd.target.user_id # cmd.user_id
    /\ events = <<>>
    /\ cmd.target \in LiveOrders(order_store)

(* ---- the adapter ---- *)
(* C16: input validation at the adapter: a place request with a missing or  *)
(* invalid side, with quantity 0 or with price 0 is answered with           *)
(* invalid-argument and never enqueued, so no Place command with a zero     *)
(* price or quantity waits in the queue, is written to the WAL or rests in  *)
(* the book.                                                                *)
C16_InvalidPlaceRejected ==
    /\ \A i \in DOMAIN receiver :
         receiver[i].op = "place" => receiver[i].price # 0 /\ receiver[i].quantity # 0
    /\ \A i \in DOMAIN (wal_file \o wal_buf) :
         (wal_file \o wal_buf)[i].entry.type = "Place" =>
            /\ (wal_file \o wal_buf)[i].entry.price # 0
            /\ (wal_file \o wal_buf)[i].entry.quantity # 0
    /\ \A o \in LiveOrders(order_store) : o.price # 0

(* ---- the fan-out ---- *)
(* the events published and not yet received by s *)
Backlog(s) == Len(published) + 1 - subs[s].next

(* C18: lossy fan-out: publishing is possible whatever the subscribers do   *)
(* (none, slow, overflowed) and touches no subscriber; what a subscriber    *)
(* has seen is a subsequence of the published events in emission order; a   *)
(* receive of a subscriber with more unread events than the channel holds   *)
(* reports the lag, which counts exactly its oldest unread events, and any  *)
(* other receive delivers its oldest unread event; a receive changes no     *)
(* other subscriber, nothing published and nothing of the book.             *)
C18_LossyFanout ==
    [][/\ (pc # "down" /\ Len(published) < MaxEvents) => ENABLED Publish
       /\ published' # published /\ pc' # "down" => subs' = subs
       /\ \A s \in Subs :
            /\ IsSubseq(subs'[s].seen, published')
            /\ (subs[s].state = "open" /\ subs'[s] # subs[s] /\ pc' # "down") =>
                 /\ \A t \in Subs \ {s} : subs'[t] = subs[t]
                 /\ published' = published
                 /\ UNCHANGED <<order_store, bids, asks, order_index>>
                 /\ IF Backlog(s) > BroadcastCap
                    THEN /\ subs'[s].lagged = Backlog(s) - BroadcastCap
                         /\ subs'[s].seen = subs[s].seen
                         /\ subs'[s].state = "closed"
                    ELSE /\ subs'[s].lagged = 0
                         /\ subs'[s].seen \in {subs[s].seen,
                                               Append(subs[s].seen, published[subs[s].next])}]_vars

(* one subscriber overflowed and was told so, the other one has seen every  *)
(* event in order                                                           *)
C18_Witness ==
    \E s, t \in Subs :
        /\ subs[s].state = "closed"
        /\ subs[s].lagged > 0
        /\ subs[t].state = "open"
        /\ Len(published) > BroadcastCap
        /\ subs[t].seen = published
====
